---- MODULE Spec2Model ----
(***************************************************************************)
(* Model of the robot session store (web/frontend/src/stores/robotStore.js)*)
(* and of the fetch wrapper it calls (services/api/robotApi.js).           *)
(*                                                                         *)
(* JavaScript runs the store on one event loop: the code of an async       *)
(* action up to its await is one atomic step (the "call" step), and the    *)
(* code after the await, through catch/finally to the return or throw, is  *)
(* another (the "settle" step).  Calls in flight wait in `pending`; the    *)
(* remote service answers them in any order.                               *)
(*                                                                         *)
(* Spec is the connection lifecycle (connect, disconnect, teleoperation,   *)
(* status fetches, the polling timer and the socket); SpecStream is the    *)
(* streaming channel (the socket, its camera_frame events, connect and     *)
(* disconnect); SpecSession is Spec without direct calls of initSocket,    *)
(* cleanupSocket, startStatusPolling and stopStatusPolling.                *)
(* SpecRefresh is the best-effort actions (config refresh, status fetches, *)
(* the polling timer, sendAction); SpecAdapter is the transport adapter    *)
(* called on its own.                                                      *)
(* SpecPanel is the connection panel used one action at a time, with      *)
(* frames arriving; SpecLoading is overlapping actions that use the        *)
(* loading flag, under the fairness that every call is answered.           *)
(* SpecFeed is the camera feed of a session: connect, disconnect and the   *)
(* frames of the socket they open, with no direct call of cleanupSocket.   *)
(***************************************************************************)
EXTENDS Integers, Sequences, FiniteSets, TLC

\* ---------------------------------------------------------------- bounds
MaxInFlight == 2      \* transport calls in flight at once
MaxTimers == 2        \* interval timers live at once
MaxSockets == 2       \* sockets open at once

\* ------------------------------------------------------ JavaScript values
Null == "null"        \* null, for a string-valued field
Undefined == "undefined"  \* an argument or field that is not given
NoTimer == 0          \* statusPollingTimer: null (timer handles are > 0)
NoSocket == 0         \* socket: null

\* !!x for a string-valued x
Truthy(x) == x # Null /\ x # Undefined /\ x # ""

\* a || b for string-valued a
OrElse(a, b) == IF Truthy(a) THEN a ELSE b

\* (obj.field || []) for a list-valued field that may be missing
FieldOrEmpty(obj, field) == IF field \in DOMAIN obj THEN obj[field] ELSE << >>

\* ------------------------------------------------------------ input sets
CameraRef(id) == [id |-> id, name |-> id]
Cam1 == CameraRef("cam1")
Cam2 == CameraRef("cam2")
CameraIds == {"cam1", "cam2"}
Frames == {"", "f1", "f2"}     \* "" : an event with an empty frame
RobotConfigs == {"aloha.yaml"}
OverrideLists == {Null, "~cameras"}
FpsValues == {Undefined, "30"}
Actions == {"a1"}

ConfigCatalogs ==
    { <<[path |-> "aloha.yaml", name |-> "Aloha"]>>,
      <<[path |-> "aloha.yaml", name |-> "Aloha"], [path |-> "koch.yaml", name |-> "Koch"]>> }

\* state() of the store: the initial ConnectionStatus
DefaultStatus ==
    [connected |-> FALSE, mode |-> Null, error |-> Null,
     cameras |-> << >>, available_arms |-> << >>]

\* the empty cameraStreams object {}
EmptyStreams == [c \in {} |-> Null]

\* ------------------------------------------------- the remote service
\* Bodies of a 2xx answer, per endpoint.
AckBodies ==
    { [status |-> "success"],
      [status |-> "error", message |-> "port busy"] }

ConnectBodies ==
    { [status |-> "success"],
      [status |-> "success", data |-> [available_arms |-> <<"left">>, cameras |-> <<Cam1, Cam2>>]],
      [status |-> "success", data |-> [available_arms |-> <<"left">>]],
      [status |-> "error", message |-> "port busy"] }

StatusBodies ==
    { [connected |-> TRUE, mode |-> Null, error |-> Null,
       cameras |-> <<Cam1>>, available_arms |-> <<"left">>],
      [connected |-> TRUE, mode |-> "teleoperating", error |-> Null,
       cameras |-> <<Cam1, Cam2>>, available_arms |-> <<"left">>],
      [connected |-> FALSE, mode |-> Null, error |-> Null,
       cameras |-> << >>, available_arms |-> << >>] }

OkBodies(endpoint) ==
    CASE endpoint = "/configs" -> ConfigCatalogs
      [] endpoint = "/connect" -> ConnectBodies
      [] endpoint = "/status" -> StatusBodies
      [] OTHER -> AckBodies

\* What fetch() and response.json() can produce for one request.
HttpOutcomes(endpoint) ==
    { [kind |-> "network", message |-> "Failed to fetch"],
      [kind |-> "badjson"],
      [kind |-> "json", ok |-> FALSE, status |-> "500",
       statusText |-> "Internal Server Error", body |-> [message |-> "port busy"]],
      [kind |-> "json", ok |-> FALSE, status |-> "500",
       statusText |-> "Internal Server Error", body |-> [message |-> Undefined]] }
    \cup { [kind |-> "json", ok |-> TRUE, status |-> "200", statusText |-> "OK", body |-> b] :
             b \in OkBodies(endpoint) }

\* ----------------------------------------------------- robotApi.js
\* `HTTP ${response.status}: ${response.statusText}`
HttpStatusLine(h) == "HTTP " \o h.status \o ": " \o h.statusText

\* the axios-like error apiCall throws for a failure with message m
ApiError(m) == [message |-> m, response |-> [data |-> [message |-> m], status |-> "500"]]

\* (mutant) a non-2xx answer is always reported by its status line
apiCall_ignoreBody(h) ==
    CASE h.kind = "network" -> [ok |-> FALSE, error |-> ApiError(h.message)]
      [] h.kind = "badjson" -> [ok |-> FALSE, error |-> ApiError("Invalid JSON response from server")]
      [] h.kind = "json" /\ ~h.ok -> [ok |-> FALSE, error |-> ApiError(HttpStatusLine(h))]
      [] OTHER -> [ok |-> TRUE, data |-> h.body]

\* apiCall: one fetch, parse, check response.ok, wrap
apiCall(h) ==
    CASE h.kind = "network" -> [ok |-> FALSE, error |-> ApiError(h.message)]
      [] h.kind = "badjson" -> [ok |-> FALSE, error |-> ApiError("Invalid JSON response from server")]
      [] h.kind = "json" /\ ~h.ok ->
            [ok |-> FALSE,
             error |-> ApiError(IF Truthy(h.body.message) THEN h.body.message
                                ELSE HttpStatusLine(h))]
      [] OTHER -> [ok |-> TRUE, data |-> h.body]

\* a parameter's default value applies when the argument is undefined
Default(x, d) == IF x = Undefined THEN d ELSE x

\* The requests the adapter's operations hand to apiCall.
robotApi_getConfigs == [endpoint |-> "/configs", method |-> "GET"]
robotApi_connect(operationMode) ==
    [endpoint |-> "/connect", method |-> "POST",
     body |-> [operation_mode |-> Default(operationMode, "bimanual")]]
robotApi_disconnect == [endpoint |-> "/disconnect", method |-> "POST"]
robotApi_getStatus == [endpoint |-> "/status", method |-> "GET"]
robotApi_startTeleoperation(fps, showCameras) ==
    [endpoint |-> "/teleoperate/start", method |-> "POST",
     body |-> [fps |-> Default(fps, "30"), show_cameras |-> Default(showCameras, "true")]]
robotApi_stopTeleoperation == [endpoint |-> "/teleoperate/stop", method |-> "POST"]

\* ------------------------------------------------------------- state
VARIABLES
    status,              \* ConnectionStatus
    configs,             \* configuration catalog
    isLoading,
    socket,              \* the store's socket reference, NoSocket when null
    cameraStreams,       \* camera id -> data URL of the latest frame
    statusPollingTimer,  \* the store's timer handle, NoTimer when null
    timers,              \* interval timers that are live in the event loop
    sockets,             \* sockets made by io() and not yet disconnected
    listeners,           \* open socket -> the events socket.on() was called for
    pending,             \* transport calls in flight, in the order issued
    emitted,             \* signals the latest step emitted on a socket
    last                 \* the latest step: which action, and how it settled

vars == <<status, configs, isLoading, socket, cameraStreams, statusPollingTimer,
          timers, sockets, listeners, pending, emitted, last>>

\* The store and the resources it holds, as one value the handlers transform.
World ==
    [status |-> status, configs |-> configs, isLoading |-> isLoading,
     socket |-> socket, cameraStreams |-> cameraStreams,
     statusPollingTimer |-> statusPollingTimer, timers |-> timers,
     sockets |-> sockets, listeners |-> listeners, emitted |-> << >>]

Becomes(w) ==
    /\ status' = w.status
    /\ configs' = w.configs
    /\ isLoading' = w.isLoading
    /\ socket' = w.socket
    /\ cameraStreams' = w.cameraStreams
    /\ statusPollingTimer' = w.statusPollingTimer
    /\ timers' = w.timers
    /\ sockets' = w.sockets
    /\ listeners' = w.listeners
    /\ emitted' = w.emitted

\* ----------------------------------------------------------- getters
isConnected(w) == w.status.connected
isTeleoperating(w) == w.status.mode = "teleoperating"
hasError(w) == Truthy(w.status.error)
errorMessage(w) == w.status.error
availableCameras(w) == FieldOrEmpty(w.status, "cameras")

\* ------------------------------------------------ synchronous actions
\* `data:image/jpeg;base64,${data.frame}`
DataUrl(frame) == "data:image/jpeg;base64," \o frame

\* (mutant) a frame is stored only when the camera has none yet
onCameraFrame_keepFirst(w, data) ==
    IF Truthy(data.camera_id) /\ Truthy(data.frame) /\ data.camera_id \notin DOMAIN w.cameraStreams
    THEN [w EXCEPT !.cameraStreams =
            [c \in DOMAIN @ \cup {data.camera_id} |->
                IF c = data.camera_id THEN DataUrl(data.frame) ELSE @[c]]]
    ELSE w

\* (mutant) the mapping is replaced by one that holds the new frame alone
onCameraFrame_replaceAll(w, data) ==
    IF Truthy(data.camera_id) /\ Truthy(data.frame)
    THEN [w EXCEPT !.cameraStreams =
            [c \in {data.camera_id} |-> DataUrl(data.frame)]]
    ELSE w

\* the socket's camera_frame handler
onCameraFrame(w, data) ==
    IF Truthy(data.camera_id) /\ Truthy(data.frame)
    THEN [w EXCEPT !.cameraStreams =
            [c \in DOMAIN @ \cup {data.camera_id} |->
                IF c = data.camera_id THEN DataUrl(data.frame) ELSE @[c]]]
    ELSE w

\* A handle that setInterval or io() returns: one that no live timer or open
\* socket has.  The store only ever tests a handle for null and hands it back
\* to clearInterval or disconnect, so which fresh handle it is does not
\* matter; the least one is taken.
Fresh(live) == CHOOSE n \in 1..(Cardinality(live) + 1) :
                  n \notin live /\ \A m \in 1..(n - 1) : m \in live

\* the three socket.on(event, handler) calls of initSocket, in order
SocketEvents == <<"connect", "disconnect", "camera_frame">>

\* io(): a new open socket s, with no listener yet
io(w, s) ==
    [w EXCEPT !.socket = s,
              !.sockets = @ \cup {s},
              !.listeners = [t \in DOMAIN @ \cup {s} |-> IF t = s THEN << >> ELSE @[t]]]

\* this.socket.on(event, handler)
on(w, event) == [w EXCEPT !.listeners[w.socket] = Append(@, event)]

\* (mutant) the handlers are registered again on a socket that is already open
initSocket_registerAgain(w) ==
    LET v == IF w.socket = NoSocket THEN io(w, Fresh(w.sockets)) ELSE w
    IN  on(on(on(v, SocketEvents[1]), SocketEvents[2]), SocketEvents[3])

\* (mutant) a new socket is opened whether or not one is open already
initSocket_always(w) ==
    on(on(on(io(w, Fresh(w.sockets)), SocketEvents[1]), SocketEvents[2]), SocketEvents[3])

initSocket(w) ==
    IF w.socket = NoSocket
    THEN on(on(on(io(w, Fresh(w.sockets)), SocketEvents[1]), SocketEvents[2]), SocketEvents[3])
    ELSE w

\* socket.disconnect() closes the socket; its listeners go with it
cleanupSocket(w) ==
    IF w.socket # NoSocket
    THEN [w EXCEPT !.sockets = @ \ {w.socket},
                   !.listeners = [t \in DOMAIN @ \ {w.socket} |-> @[t]],
                   !.socket = NoSocket]
    ELSE w

\* (mutant) the interval is cleared but the handle is kept
stopStatusPolling_keepHandle(w) ==
    IF w.statusPollingTimer # NoTimer
    THEN [w EXCEPT !.timers = @ \ {w.statusPollingTimer}]
    ELSE w

stopStatusPolling(w) ==
    IF w.statusPollingTimer # NoTimer
    THEN [w EXCEPT !.timers = @ \ {w.statusPollingTimer},
                   !.statusPollingTimer = NoTimer]
    ELSE w

\* (mutant) a new interval is set without stopping the previous one
startStatusPolling_noStop(w) ==
    [w EXCEPT !.statusPollingTimer = Fresh(w.timers),
              !.timers = @ \cup {Fresh(w.timers)}]

startStatusPolling(w) ==
    LET v == stopStatusPolling(w)
    IN  [v EXCEPT !.statusPollingTimer = Fresh(v.timers),
                  !.timers = @ \cup {Fresh(v.timers)}]

Signal(event, camera, fps, sock) ==
    [event |-> event, camera_id |-> camera.id, fps |-> fps, socket |-> sock]

\* (mutant) only the first camera's stream is requested
startAllCameraStreams_firstOnly(w, fps) ==
    IF w.socket = NoSocket THEN w
    ELSE LET cams == availableCameras(w)
         IN  [w EXCEPT !.emitted = @ \o
                [i \in 1..(IF Len(cams) > 0 THEN 1 ELSE 0) |->
                    Signal("start_camera_stream", cams[i], fps, w.socket)]]

startAllCameraStreams(w, fps) ==
    IF w.socket = NoSocket THEN w
    ELSE LET cams == availableCameras(w)
         IN  [w EXCEPT !.emitted = @ \o
                [i \in 1..Len(cams) |-> Signal("start_camera_stream", cams[i], fps, w.socket)]]

\* (mutant) the stop signals are emitted whether or not a socket is open
stopAllCameraStreams_unguarded(w) ==
    LET cams == availableCameras(w)
    IN  [w EXCEPT !.emitted = @ \o
            [i \in 1..Len(cams) |-> Signal("stop_camera_stream", cams[i], Null, w.socket)]]

stopAllCameraStreams(w) ==
    IF w.socket = NoSocket THEN w
    ELSE LET cams == availableCameras(w)
         IN  [w EXCEPT !.emitted = @ \o
                [i \in 1..Len(cams) |-> Signal("stop_camera_stream", cams[i], Null, w.socket)]]

\* ----------------------------------------------- asynchronous actions
\* Each has a part before the await (X_call) and a part after it (X_settle),
\* which takes the result r of apiCall and gives the new world and how the
\* action's promise settles.
\* what an action without a return statement resolves with: undefined, as a
\* record like the response bodies the other actions resolve with
NoValue == [undefined |-> TRUE]

Resolved(w, value) == [w |-> w, outcome |-> [kind |-> "resolved", value |-> value]]
Rejected(w, error) == [w |-> w, outcome |-> [kind |-> "rejected", error |-> error]]

\* (mutant) the catch block records the message but does not rethrow
CatchAndSwallow(w, error) ==
    Resolved([w EXCEPT !.status.error = OrElse(error.response.data.message, error.message),
                       !.isLoading = FALSE],
             NoValue)

\* (mutant) the catch block rethrows before the loading flag is cleared
CatchAndRethrow_noFinally(w, error) ==
    Rejected([w EXCEPT !.status.error = OrElse(error.response.data.message, error.message)],
             error)

\* catch (error) { this.status.error = error.response?.data?.message || error.message; throw error }
\* finally { this.isLoading = false }
CatchAndRethrow(w, error) ==
    Rejected([w EXCEPT !.status.error = OrElse(error.response.data.message, error.message),
                       !.isLoading = FALSE],
             error)

fetchConfigs_call(w) == [w EXCEPT !.isLoading = TRUE]

\* (mutant) a catalog that is already loaded is kept
fetchConfigs_settle_keepLoaded(w, r) ==
    IF r.ok /\ w.configs = << >>
    THEN Resolved([w EXCEPT !.configs = r.data, !.isLoading = FALSE], NoValue)
    ELSE Resolved([w EXCEPT !.isLoading = FALSE], NoValue)

fetchConfigs_settle(w, r) ==
    IF r.ok
    THEN Resolved([w EXCEPT !.configs = r.data, !.isLoading = FALSE], NoValue)
    ELSE Resolved([w EXCEPT !.isLoading = FALSE], NoValue)

connectRobot_call(w) == [w EXCEPT !.isLoading = TRUE]

\* (mutant) a successful connect does not start the polling timer
connectRobot_settle_noPolling(w, r) ==
    IF r.ok
    THEN IF r.data.status = "success"
         THEN LET v == initSocket(w)
                  u == [v EXCEPT !.status.connected = TRUE]
                  t == IF "data" \in DOMAIN r.data
                       THEN [u EXCEPT
                               !.status.available_arms = FieldOrEmpty(r.data.data, "available_arms"),
                               !.status.cameras = FieldOrEmpty(r.data.data, "cameras")]
                       ELSE u
              IN  Resolved([t EXCEPT !.isLoading = FALSE], r.data)
         ELSE Resolved([w EXCEPT !.isLoading = FALSE], r.data)
    ELSE CatchAndRethrow(w, r.error)

\* (mutant) a response is dropped when another action has cleared the loading
\* flag since the call was made
connectRobot_settle_unlessCancelled(w, r) ==
    IF r.ok
    THEN IF r.data.status = "success" /\ w.isLoading
         THEN LET v == startStatusPolling(initSocket(w))
                  u == [v EXCEPT !.status.connected = TRUE]
                  t == IF "data" \in DOMAIN r.data
                       THEN [u EXCEPT
                               !.status.available_arms = FieldOrEmpty(r.data.data, "available_arms"),
                               !.status.cameras = FieldOrEmpty(r.data.data, "cameras")]
                       ELSE u
              IN  Resolved([t EXCEPT !.isLoading = FALSE], r.data)
         ELSE Resolved([w EXCEPT !.isLoading = FALSE], r.data)
    ELSE CatchAndRethrow(w, r.error)

\* (mutant) the loading flag is cleared on a 'success' answer and on a failure
\* only
connectRobot_settle_stuckLoading(w, r) ==
    IF r.ok
    THEN IF r.data.status = "success"
         THEN LET v == startStatusPolling(initSocket(w))
                  u == [v EXCEPT !.status.connected = TRUE]
                  t == IF "data" \in DOMAIN r.data
                       THEN [u EXCEPT
                               !.status.available_arms = FieldOrEmpty(r.data.data, "available_arms"),
                               !.status.cameras = FieldOrEmpty(r.data.data, "cameras")]
                       ELSE u
              IN  Resolved([t EXCEPT !.isLoading = FALSE], r.data)
         ELSE Resolved(w, r.data)
    ELSE CatchAndRethrow(w, r.error)

\* (mutant) a successful connect clears a recorded error
connectRobot_settle_clearsError(w, r) ==
    IF r.ok
    THEN IF r.data.status = "success"
         THEN LET v == startStatusPolling(initSocket(w))
                  u == [v EXCEPT !.status.connected = TRUE, !.status.error = Null]
                  t == IF "data" \in DOMAIN r.data
                       THEN [u EXCEPT
                               !.status.available_arms = FieldOrEmpty(r.data.data, "available_arms"),
                               !.status.cameras = FieldOrEmpty(r.data.data, "cameras")]
                       ELSE u
              IN  Resolved([t EXCEPT !.isLoading = FALSE], r.data)
         ELSE Resolved([w EXCEPT !.isLoading = FALSE], r.data)
    ELSE CatchAndRethrow(w, r.error)

connectRobot_settle(w, r) ==
    IF r.ok
    THEN IF r.data.status = "success"
         THEN LET v == startStatusPolling(initSocket(w))
                  u == [v EXCEPT !.status.connected = TRUE]
                  t == IF "data" \in DOMAIN r.data
                       THEN [u EXCEPT
                               !.status.available_arms = FieldOrEmpty(r.data.data, "available_arms"),
                               !.status.cameras = FieldOrEmpty(r.data.data, "cameras")]
                       ELSE u
              IN  Resolved([t EXCEPT !.isLoading = FALSE], r.data)
         ELSE Resolved([w EXCEPT !.isLoading = FALSE], r.data)
    ELSE CatchAndRethrow(w, r.error)

disconnectRobot_call(w) == stopAllCameraStreams([w EXCEPT !.isLoading = TRUE])

\* (mutant) a successful disconnect leaves the stored frames in place
disconnectRobot_settle_keepFrames(w, r) ==
    IF r.ok
    THEN IF r.data.status = "success"
         THEN LET v == cleanupSocket(stopStatusPolling(w))
              IN  Resolved([v EXCEPT !.status.connected = FALSE,
                                     !.status.mode = Null,
                                     !.isLoading = FALSE],
                           r.data)
         ELSE Resolved([w EXCEPT !.isLoading = FALSE], r.data)
    ELSE CatchAndRethrow(w, r.error)

\* (mutant) the state is reset on any answer, not only on 'success'
disconnectRobot_settle_anyAnswer(w, r) ==
    IF r.ok
    THEN LET v == cleanupSocket(stopStatusPolling(w))
         IN  Resolved([v EXCEPT !.status.connected = FALSE,
                                !.status.mode = Null,
                                !.cameraStreams = EmptyStreams,
                                !.isLoading = FALSE],
                      r.data)
    ELSE CatchAndRethrow(w, r.error)

\* (mutant) a successful disconnect stops the timer and leaves the socket open
disconnectRobot_settle_keepSocket(w, r) ==
    IF r.ok
    THEN IF r.data.status = "success"
         THEN LET v == stopStatusPolling(w)
              IN  Resolved([v EXCEPT !.status.connected = FALSE,
                                     !.status.mode = Null,
                                     !.cameraStreams = EmptyStreams,
                                     !.isLoading = FALSE],
                           r.data)
         ELSE Resolved([w EXCEPT !.isLoading = FALSE], r.data)
    ELSE CatchAndRethrow(w, r.error)

disconnectRobot_settle(w, r) ==
    IF r.ok
    THEN IF r.data.status = "success"
         THEN LET v == cleanupSocket(stopStatusPolling(w))
              IN  Resolved([v EXCEPT !.status.connected = FALSE,
                                     !.status.mode = Null,
                                     !.cameraStreams = EmptyStreams,
                                     !.isLoading = FALSE],
                           r.data)
         ELSE Resolved([w EXCEPT !.isLoading = FALSE], r.data)
    ELSE CatchAndRethrow(w, r.error)

startTeleoperation_call(w) == [w EXCEPT !.isLoading = TRUE]

\* (mutant) a started teleoperation marks the robot as connected
startTeleoperation_settle_marksConnected(w, r) ==
    IF r.ok
    THEN IF r.data.status = "success"
         THEN LET v == startAllCameraStreams([w EXCEPT !.status.mode = "teleoperating",
                                                       !.status.connected = TRUE], "10")
              IN  Resolved([v EXCEPT !.isLoading = FALSE], r.data)
         ELSE Resolved([w EXCEPT !.isLoading = FALSE], r.data)
    ELSE CatchAndRethrow(w, r.error)

startTeleoperation_settle(w, r) ==
    IF r.ok
    THEN IF r.data.status = "success"
         THEN LET v == startAllCameraStreams([w EXCEPT !.status.mode = "teleoperating"], "10")
              IN  Resolved([v EXCEPT !.isLoading = FALSE], r.data)
         ELSE Resolved([w EXCEPT !.isLoading = FALSE], r.data)
    ELSE CatchAndRethrow(w, r.error)

stopTeleoperation_call(w) == [w EXCEPT !.isLoading = TRUE]

\* (mutant) the mode is cleared on any answer, not only on 'success'
stopTeleoperation_settle_anyAnswer(w, r) ==
    IF r.ok
    THEN Resolved([w EXCEPT !.status.mode = Null, !.isLoading = FALSE], r.data)
    ELSE CatchAndRethrow(w, r.error)

stopTeleoperation_settle(w, r) ==
    IF r.ok
    THEN IF r.data.status = "success"
         THEN Resolved([w EXCEPT !.status.mode = Null, !.isLoading = FALSE], r.data)
         ELSE Resolved([w EXCEPT !.isLoading = FALSE], r.data)
    ELSE CatchAndRethrow(w, r.error)

\* (mutant) a failed status fetch is shown to the user
fetchStatus_settle_recordError(w, r) ==
    IF r.ok
    THEN Resolved([w EXCEPT !.status = r.data], NoValue)
    ELSE Resolved([w EXCEPT !.status.error = r.error.message], NoValue)

\* (mutant) a response updates connected and mode only
fetchStatus_settle_merge(w, r) ==
    IF r.ok
    THEN Resolved([w EXCEPT !.status.connected = r.data.connected,
                            !.status.mode = r.data.mode], NoValue)
    ELSE Resolved(w, NoValue)

fetchStatus_settle(w, r) ==
    IF r.ok
    THEN Resolved([w EXCEPT !.status = r.data], NoValue)
    ELSE Resolved(w, NoValue)

\* robotApi exports no sendAction: the call throws a TypeError inside the
\* try block, before anything is sent, and the catch block stores its message.
sendAction(w, action) ==
    [w EXCEPT !.status.error = "robotApi.sendAction is not a function"]

\* ------------------------------------------------------------- steps
Init ==
    /\ status = DefaultStatus
    /\ configs = << >>
    /\ isLoading = FALSE
    /\ socket = NoSocket
    /\ cameraStreams = EmptyStreams
    /\ statusPollingTimer = NoTimer
    /\ timers = {}
    /\ sockets = {}
    /\ listeners = << >>
    /\ pending = << >>
    /\ emitted = << >>
    /\ last = [op |-> "init", phase |-> "sync", again |-> FALSE]

\* a step stays within the bounds on timers and sockets
WithinBounds(w) == Cardinality(w.timers) <= MaxTimers /\ Cardinality(w.sockets) <= MaxSockets

Sync(w, op) ==
    /\ WithinBounds(w)
    /\ Becomes(w)
    /\ pending' = pending
    /\ last' = [op |-> op, phase |-> "sync",
                again |-> (last.op = op /\ last.phase = "sync")]

\* an action called with arguments args hands the adapter the request req
IssueWith(w, op, by, req, args) ==
    /\ Len(pending) < MaxInFlight
    /\ Becomes(w)
    /\ pending' = Append(pending, [op |-> op, endpoint |-> req.endpoint])
    /\ last' = [op |-> op, phase |-> "call", by |-> by, req |-> req, args |-> args]

Issue(w, op, by, req) == IssueWith(w, op, by, req, << >>)

Remove(seq, i) == SubSeq(seq, 1, i - 1) \o SubSeq(seq, i + 1, Len(seq))

\* by: the timer whose tick made the call, NoTimer for a call by a user.
\* the call at place i of pending gets the outcome h of its one request
Settle(i, op, h, res) ==
    /\ pending[i].op = op
    /\ WithinBounds(res.w)
    /\ Becomes(res.w)
    /\ pending' = Remove(pending, i)
    /\ last' = [op |-> op, phase |-> "settle", http |-> h, result |-> apiCall(h),
                outcome |-> res.outcome]

InitSocket == Sync(initSocket(World), "initSocket")
CleanupSocket == Sync(cleanupSocket(World), "cleanupSocket")
StartStatusPolling == Sync(startStatusPolling(World), "startStatusPolling")
StopStatusPolling == Sync(stopStatusPolling(World), "stopStatusPolling")
SendAction == \E a \in Actions : Sync(sendAction(World, a), "sendAction")

\* the socket delivers the event to every listener registered for it
RECURSIVE Deliver(_, _, _)
Deliver(w, events, data) ==
    IF events = << >> THEN w
    ELSE Deliver(IF Head(events) = "camera_frame" THEN onCameraFrame(w, data) ELSE w,
                 Tail(events), data)

CameraFrame ==
    \E s \in sockets, c \in CameraIds \cup {Undefined}, f \in Frames :
        LET data == [camera_id |-> c, frame |-> f]
        IN  /\ Becomes(Deliver(World, listeners[s], data))
            /\ pending' = pending
            /\ last' = [op |-> "camera_frame", phase |-> "event", data |-> data,
                        prev |-> IF last.op = "camera_frame" THEN <<last.data>> ELSE << >>]

FetchConfigsCall ==
    Issue(fetchConfigs_call(World), "fetchConfigs", NoTimer, robotApi_getConfigs)

\* robotApi.connect(robotConfig, robotOverrides): connect has one parameter,
\* operationMode, and an argument beyond a function's parameters is dropped
connectRobot_request(robotConfig, robotOverrides) == robotApi_connect(robotConfig)

ConnectRobotCall ==
    \E robotConfig \in RobotConfigs, robotOverrides \in OverrideLists :
        IssueWith(connectRobot_call(World), "connectRobot", NoTimer,
                  connectRobot_request(robotConfig, robotOverrides),
                  <<robotConfig, robotOverrides>>)

DisconnectRobotCall ==
    Issue(disconnectRobot_call(World), "disconnectRobot", NoTimer, robotApi_disconnect)

\* startTeleoperation(fps = null) hands fps alone to the adapter
startTeleoperation_request(fps) ==
    robotApi_startTeleoperation(Default(fps, Null), Undefined)

StartTeleoperationCall ==
    \E fps \in FpsValues :
        Issue(startTeleoperation_call(World), "startTeleoperation", NoTimer,
              startTeleoperation_request(fps))

StopTeleoperationCall ==
    Issue(stopTeleoperation_call(World), "stopTeleoperation", NoTimer,
          robotApi_stopTeleoperation)

FetchStatusCall ==
    Issue(World, "fetchStatus", NoTimer, robotApi_getStatus)

\* one tick of a live interval timer: its callback calls fetchStatus
Tick ==
    \E t \in timers :
        Issue(World, "fetchStatus", t, robotApi_getStatus)

FetchConfigsSettle ==
    \E i \in 1..Len(pending) : \E h \in HttpOutcomes(pending[i].endpoint) :
        Settle(i, "fetchConfigs", h, fetchConfigs_settle(World, apiCall(h)))

ConnectRobotSettle ==
    \E i \in 1..Len(pending) : \E h \in HttpOutcomes(pending[i].endpoint) :
        Settle(i, "connectRobot", h, connectRobot_settle(World, apiCall(h)))

DisconnectRobotSettle ==
    \E i \in 1..Len(pending) : \E h \in HttpOutcomes(pending[i].endpoint) :
        Settle(i, "disconnectRobot", h, disconnectRobot_settle(World, apiCall(h)))

StartTeleoperationSettle ==
    \E i \in 1..Len(pending) : \E h \in HttpOutcomes(pending[i].endpoint) :
        Settle(i, "startTeleoperation", h, startTeleoperation_settle(World, apiCall(h)))

StopTeleoperationSettle ==
    \E i \in 1..Len(pending) : \E h \in HttpOutcomes(pending[i].endpoint) :
        Settle(i, "stopTeleoperation", h, stopTeleoperation_settle(World, apiCall(h)))

FetchStatusSettle ==
    \E i \in 1..Len(pending) : \E h \in HttpOutcomes(pending[i].endpoint) :
        Settle(i, "fetchStatus", h, fetchStatus_settle(World, apiCall(h)))

\* The connection lifecycle: connect and disconnect, teleoperation, status
\* fetches, the polling timer and its ticks, and the socket.
Next ==
    \/ InitSocket
    \/ CleanupSocket
    \/ StartStatusPolling
    \/ StopStatusPolling
    \/ ConnectRobotCall
    \/ DisconnectRobotCall
    \/ StartTeleoperationCall
    \/ StopTeleoperationCall
    \/ FetchStatusCall
    \/ Tick
    \/ ConnectRobotSettle
    \/ DisconnectRobotSettle
    \/ StartTeleoperationSettle
    \/ StopTeleoperationSettle
    \/ FetchStatusSettle

Spec == Init /\ [][Next]_vars

\* A session driven only through the asynchronous actions: the socket and the
\* timer are opened, started, closed and stopped by connectRobot and
\* disconnectRobot alone.
NextSession ==
    \/ ConnectRobotCall
    \/ DisconnectRobotCall
    \/ StartTeleoperationCall
    \/ StopTeleoperationCall
    \/ FetchStatusCall
    \/ Tick
    \/ ConnectRobotSettle
    \/ DisconnectRobotSettle
    \/ StartTeleoperationSettle
    \/ StopTeleoperationSettle
    \/ FetchStatusSettle

SpecSession == Init /\ [][NextSession]_vars

\* The streaming channel: the socket, the frames it delivers, and the
\* connect and disconnect that open and close it.
NextStream ==
    \/ InitSocket
    \/ CleanupSocket
    \/ CameraFrame
    \/ ConnectRobotCall
    \/ DisconnectRobotCall
    \/ ConnectRobotSettle
    \/ DisconnectRobotSettle

SpecStream == Init /\ [][NextStream]_vars

\* The best-effort actions: config refresh, status fetches by hand and by the
\* polling timer, and sendAction, whose failure is the one thing here that
\* writes status.error.
NextRefresh ==
    \/ FetchConfigsCall
    \/ FetchStatusCall
    \/ StartStatusPolling
    \/ StopStatusPolling
    \/ Tick
    \/ SendAction
    \/ FetchConfigsSettle
    \/ FetchStatusSettle

SpecRefresh == Init /\ [][NextRefresh]_vars

\* The transport adapter on its own: a caller (a view, or the store) calls
\* one of its six operations and gets what apiCall returns or throws.
ShowCamerasValues == {Undefined, "false"}

AdapterRequests ==
    {robotApi_getConfigs, robotApi_disconnect, robotApi_getStatus, robotApi_stopTeleoperation}
    \cup {robotApi_connect(m) : m \in RobotConfigs \cup {Undefined}}
    \cup {robotApi_startTeleoperation(f, c) : f \in FpsValues, c \in ShowCamerasValues}

\* return { data }  /  throw apiError
robotApi_settle(w, r) ==
    IF r.ok THEN Resolved(w, [data |-> r.data]) ELSE Rejected(w, r.error)

RobotApiCall ==
    \E req \in AdapterRequests : Issue(World, "robotApi", NoTimer, req)

RobotApiSettle ==
    \E i \in 1..Len(pending) : \E h \in HttpOutcomes(pending[i].endpoint) :
        Settle(i, "robotApi", h, robotApi_settle(World, apiCall(h)))

NextAdapter ==
    \/ RobotApiCall
    \/ RobotApiSettle

SpecAdapter == Init /\ [][NextAdapter]_vars

\* The connection panel used one action at a time: its buttons are disabled
\* while isLoading, so a new action is called only when none is in flight;
\* frames arrive at any time.
UserIdle == pending = << >>

NextPanel ==
    \/ UserIdle /\ FetchConfigsCall
    \/ UserIdle /\ ConnectRobotCall
    \/ UserIdle /\ DisconnectRobotCall
    \/ UserIdle /\ StartTeleoperationCall
    \/ CameraFrame
    \/ FetchConfigsSettle
    \/ ConnectRobotSettle
    \/ DisconnectRobotSettle
    \/ StartTeleoperationSettle

SpecPanel == Init /\ [][NextPanel]_vars

\* Actions that use the loading flag, overlapping freely, with every transport
\* call in flight answered in the end: fetchConfigs, whose catch block
\* swallows the failure, and connectRobot and disconnectRobot, whose catch
\* block rethrows it as that of startTeleoperation and stopTeleoperation does.
NextLoading ==
    \/ FetchConfigsCall
    \/ ConnectRobotCall
    \/ DisconnectRobotCall
    \/ FetchConfigsSettle
    \/ ConnectRobotSettle
    \/ DisconnectRobotSettle

\* a settle step stays enabled until it is taken, so weak fairness says that
\* every outstanding call is answered
EveryCallSettles ==
    /\ WF_vars(FetchConfigsSettle)
    /\ WF_vars(ConnectRobotSettle)
    /\ WF_vars(DisconnectRobotSettle)

SpecLoading == Init /\ [][NextLoading]_vars /\ EveryCallSettles

\* The camera feed of a session: connectRobot and disconnectRobot, the two
\* asynchronous actions that write socket or cameraStreams, overlapping
\* freely, and the frames that arrive on the socket they open.  initSocket
\* and cleanupSocket are reached only through them.
NextFeed ==
    \/ ConnectRobotCall
    \/ DisconnectRobotCall
    \/ CameraFrame
    \/ ConnectRobotSettle
    \/ DisconnectRobotSettle

SpecFeed == Init /\ [][NextFeed]_vars

\* ------------------------------------------------------- properties
\* the latest step is the settling of a call of action op
Settled(op) == last.op = op /\ last.phase = "settle"

\* ... and its request was answered with status 'success'
SettledSuccess(op) ==
    Settled(op) /\ last.result.ok /\ last.result.data.status = "success"

\* the latest step is a tick of an interval timer, which called fetchStatus
Ticked == last.op = "fetchStatus" /\ last.phase = "call" /\ last.by # NoTimer

\* the start_camera_stream signals for a camera list, in order, on socket s
StartSignals(cams, s) ==
    [i \in 1..Len(cams) |-> Signal("start_camera_stream", cams[i], "10", s)]

\* C1: when the connect request returns status 'success', then as connectRobot
\* returns status.connected is true, the polling timer is set and live, and
\* the socket is set and open.
C1_ConnectSuccess ==
    SettledSuccess("connectRobot") =>
        /\ status.connected = TRUE
        /\ statusPollingTimer # NoTimer /\ statusPollingTimer \in timers
        /\ socket # NoSocket /\ socket \in sockets

C1_Witness ==
    /\ SettledSuccess("connectRobot")
    /\ last.outcome.kind = "resolved"
    /\ status.cameras = <<Cam1, Cam2>>

\* C2 as stated: after every disconnectRobot call, whatever the outcome of the
\* request, cameraStreams is empty, status.connected is false and the timer
\* is stopped.
C2_AnyOutcome ==
    Settled("disconnectRobot") =>
        /\ cameraStreams = EmptyStreams
        /\ status.connected = FALSE
        /\ statusPollingTimer = NoTimer

\* C2 amended: after a disconnectRobot call whose request returned status
\* 'success', cameraStreams is empty, status.connected is false and the timer
\* is stopped.
C2_AfterSuccess ==
    SettledSuccess("disconnectRobot") =>
        /\ cameraStreams = EmptyStreams
        /\ status.connected = FALSE
        /\ statusPollingTimer = NoTimer /\ timers = {}

C2_Witness ==
    /\ SettledSuccess("disconnectRobot")
    /\ status.cameras = <<Cam1, Cam2>>
    /\ status.connected = FALSE
    /\ cameraStreams = EmptyStreams

\* C3: after a disconnectRobot call whose request returned status 'success',
\* the whole ConnectionStatus equals its initial default, cameraStreams is
\* empty, the socket is null and the timer is cleared.
C3_ResetToDefault ==
    SettledSuccess("disconnectRobot") =>
        /\ status = DefaultStatus
        /\ cameraStreams = EmptyStreams
        /\ socket = NoSocket
        /\ statusPollingTimer = NoTimer

\* C4: when the transport call of connectRobot, disconnectRobot,
\* startTeleoperation or stopTeleoperation throws, the action stores the
\* failure's message in status.error and rejects with that same error.
StateChanging == {"connectRobot", "disconnectRobot", "startTeleoperation", "stopTeleoperation"}

C4_FailureSurfaced ==
    (last.phase = "settle" /\ last.op \in StateChanging /\ ~last.result.ok) =>
        /\ status.error = last.result.error.message
        /\ last.outcome.kind = "rejected"
        /\ last.outcome.error = last.result.error

C4_Witness ==
    /\ Settled("startTeleoperation")
    /\ ~last.result.ok
    /\ last.result.error.message = "port busy"
    /\ status.error = "port busy"

\* C5: when the connect call resolves with {status: 'error', message: m},
\* connectRobot rejects and status.error equals m.
C5_ErrorResponseRejects ==
    (Settled("connectRobot") /\ last.result.ok /\ last.result.data.status = "error") =>
        /\ last.outcome.kind = "rejected"
        /\ status.error = last.result.data.message

\* C6: at most one interval timer is live, a live timer is the one
\* statusPollingTimer refers to, and a call of startStatusPolling (the first
\* or a repeated one) leaves exactly one.
C6_OneTimer ==
    /\ Cardinality(timers) <= 1
    /\ timers \subseteq {statusPollingTimer}
    /\ (last.op = "startStatusPolling" =>
            statusPollingTimer # NoTimer /\ timers = {statusPollingTimer})

C6_Witness ==
    /\ last.op = "startStatusPolling"
    /\ last.again
    /\ Cardinality(timers) = 1
    /\ Len(pending) = MaxInFlight

\* C7: a call of stopStatusPolling that follows another one changes nothing,
\* and after either the handle is null and no timer is live.
C7_StopTwice ==
    [][ /\ (last'.op = "stopStatusPolling" =>
                statusPollingTimer' = NoTimer /\ timers' = {})
        /\ ((last.op = "stopStatusPolling" /\ last'.op = "stopStatusPolling") =>
                World' = World)
      ]_vars

C7_Witness ==
    /\ last.op = "stopStatusPolling"
    /\ last.again
    /\ statusPollingTimer = NoTimer
    /\ status.connected = TRUE

\* C8: the polling timer invokes fetchStatus only while connected: no tick
\* issues a getStatus request in a state where status.connected is false.
C8_OnlyWhileConnected ==
    Ticked => (status.connected = TRUE /\ last.req = robotApi_getStatus)

\* C9 as stated: when a camera_frame event for camera c follows another one
\* for c, cameraStreams[c] holds the value derived from the second payload.
FrameAfterFrame ==
    /\ last.op = "camera_frame"
    /\ Len(last.prev) = 1
    /\ last.data.camera_id \in CameraIds
    /\ last.prev[1].camera_id = last.data.camera_id

C9_SecondRetained ==
    FrameAfterFrame =>
        /\ last.data.camera_id \in DOMAIN cameraStreams
        /\ cameraStreams[last.data.camera_id] = DataUrl(last.data.frame)

\* C9 amended: when a camera_frame event for camera c follows another one for
\* c and carries a non-empty frame, cameraStreams[c] holds the value derived
\* from the second payload, and nothing of the first.
C9_SecondNonEmptyRetained ==
    (FrameAfterFrame /\ Truthy(last.data.frame)) =>
        /\ last.data.camera_id \in DOMAIN cameraStreams
        /\ cameraStreams[last.data.camera_id] = DataUrl(last.data.frame)

C9_Witness ==
    /\ FrameAfterFrame
    /\ last.prev[1] = [camera_id |-> "cam1", frame |-> "f1"]
    /\ last.data = [camera_id |-> "cam1", frame |-> "f2"]
    /\ cameraStreams["cam1"] = "data:image/jpeg;base64,f2"

\* C10 as stated: when startTeleoperation's request returns status 'success',
\* in any state, status.mode is 'teleoperating' and one start_camera_stream
\* signal has been emitted for every camera of status.cameras.
C10_SignalsForEveryCamera ==
    SettledSuccess("startTeleoperation") =>
        /\ status.mode = "teleoperating"
        /\ Len(emitted) = Len(status.cameras)
        /\ \A i \in 1..Len(status.cameras) :
              /\ emitted[i].event = "start_camera_stream"
              /\ emitted[i].camera_id = status.cameras[i].id

\* C10 amended: when startTeleoperation's request returns status 'success',
\* status.mode is 'teleoperating'; if the socket is open at that time, one
\* start_camera_stream signal has been emitted on it for every camera of
\* status.cameras, and if it is not, none has been emitted.
C10_SignalsWhenSocketOpen ==
    SettledSuccess("startTeleoperation") =>
        /\ status.mode = "teleoperating"
        /\ (socket # NoSocket => emitted = StartSignals(status.cameras, socket))
        /\ (socket = NoSocket => emitted = << >>)

C10_Witness ==
    /\ SettledSuccess("startTeleoperation")
    /\ socket # NoSocket
    /\ status.cameras = <<Cam1, Cam2>>
    /\ Len(emitted) = 2

\* C11: in every reachable state, status.mode is non-null only when
\* status.connected is true.
C11_ModeOnlyWhenConnected ==
    status.mode # Null => status.connected = TRUE

\* the latest step is the settling of a call of op whose request succeeded
SettledOk(op) == Settled(op) /\ last.result.ok

\* ... whose request failed
SettledFailed(op) == Settled(op) /\ ~last.result.ok

\* C12: when getConfigs succeeds with a list L, then as fetchConfigs settles
\* configs equals L, whatever catalog was there before.
C12_CatalogReplaced ==
    SettledOk("fetchConfigs") => configs = last.http.body

C12_Witness ==
    /\ SettledOk("fetchConfigs")
    /\ last.http.body = <<[path |-> "aloha.yaml", name |-> "Aloha"]>>
    /\ configs = <<[path |-> "aloha.yaml", name |-> "Aloha"]>>
    /\ isLoading = FALSE

\* C13: a fetchStatus or fetchConfigs whose adapter call fails resolves, and
\* leaves status (status.error included), the configuration catalog and the
\* polling timer as they were.
C13_FailuresSwallowed ==
    [][ (SettledFailed("fetchStatus")' \/ SettledFailed("fetchConfigs")') =>
            /\ last'.outcome.kind = "resolved"
            /\ status' = status
            /\ configs' = configs
            /\ statusPollingTimer' = statusPollingTimer
            /\ timers' = timers
      ]_vars

C13_Witness ==
    /\ SettledFailed("fetchStatus")
    /\ last.outcome.kind = "resolved"
    /\ status.connected = TRUE
    /\ configs # << >>
    /\ statusPollingTimer # NoTimer /\ statusPollingTimer \in timers

\* C14: every successful fetchStatus response overwrites status wholesale as
\* it arrives, also while another fetchStatus call is in flight: status equals
\* the response that arrived last.
C14_LastWriteWins ==
    SettledOk("fetchStatus") => status = last.http.body

C14_Witness ==
    /\ SettledOk("fetchStatus")
    /\ Len(pending) = 1 /\ pending[1].op = "fetchStatus"
    /\ statusPollingTimer # NoTimer
    /\ status.mode = "teleoperating"

\* the calls of action op that are in flight
InFlight(op) == {i \in 1..Len(pending) : pending[i].op = op}

\* C15: in-flight calls are never cancelled.  A successful disconnectRobot
\* leaves an outstanding connectRobot call in flight, a connectRobot call
\* leaves flight only by settling, and whenever its success response arrives
\* it is applied: status.connected is true, the socket is open and the
\* polling timer is live.
C15_ConnectNotCancelled ==
    [][ /\ (SettledSuccess("disconnectRobot")' /\ InFlight("connectRobot") # {}) =>
                Cardinality(InFlight("connectRobot")') = Cardinality(InFlight("connectRobot"))
        /\ (Cardinality(InFlight("connectRobot")') < Cardinality(InFlight("connectRobot"))) =>
                Settled("connectRobot")'
        /\ SettledSuccess("connectRobot")' =>
                /\ status'.connected = TRUE
                /\ socket' # NoSocket /\ socket' \in sockets'
                /\ statusPollingTimer' # NoTimer /\ statusPollingTimer' \in timers'
      ]_vars

C15_Witness ==
    /\ SettledSuccess("disconnectRobot")
    /\ InFlight("connectRobot") # {}
    /\ status.cameras = <<Cam1, Cam2>>
    /\ status.connected = FALSE
    /\ socket = NoSocket
    /\ timers = {}

\* C16: isLoading is true as connectRobot issues its request, and false as
\* connectRobot settles, whether the answer was 'success', a refusal or a
\* thrown failure.
C16_LoadingFlag ==
    /\ (last.op = "connectRobot" /\ last.phase = "call") => isLoading = TRUE
    /\ Settled("connectRobot") => isLoading = FALSE

C16_Witness ==
    /\ SettledOk("connectRobot")
    /\ last.result.data.status = "error"
    /\ last.outcome.kind = "resolved"
    /\ isLoading = FALSE

\* C17: initSocket called while a socket is open changes nothing (no second
\* socket, no further listeners: an open socket has each of its three
\* listeners once), and cleanupSocket called while none is open changes
\* nothing.
C17_OpenCloseIdempotent ==
    [][ /\ (last'.op = "initSocket" /\ socket # NoSocket) => World' = World
        /\ (last'.op = "cleanupSocket" /\ socket = NoSocket) => World' = World
        /\ \A s \in sockets' : s = socket' /\ listeners'[s] = SocketEvents
      ]_vars

C17_Witness ==
    /\ last.op = "initSocket"
    /\ last.again
    /\ socket # NoSocket
    /\ sockets = {socket}
    /\ listeners[socket] = SocketEvents

\* the messages apiCall makes up itself for an answer h
GenericMessages(h) ==
    IF h.kind = "badjson" THEN {"Invalid JSON response from server"}
    ELSE {"HTTP " \o h.status \o ": " \o h.statusText}

\* C18: a call of an adapter operation puts one request in flight and its
\* answer, failure included, takes it out again (nothing is sent a second
\* time); a non-2xx or unparsable answer makes the call fail with the body's
\* message when the body has one and a generic message otherwise, and a 2xx
\* answer makes it resolve with the parsed body.
C18_OneRequestAndMessage ==
    [][ /\ (last'.op = "robotApi" /\ last'.phase = "call") =>
                /\ Len(pending') = Len(pending) + 1
                /\ pending'[Len(pending')].endpoint = last'.req.endpoint
        /\ Settled("robotApi")' =>
                /\ Len(pending') = Len(pending) - 1
                /\ LET h == last'.http
                       out == last'.outcome
                   IN  CASE h.kind = "json" /\ h.ok ->
                                out.kind = "resolved" /\ out.value.data = h.body
                         [] h.kind = "json" /\ ~h.ok /\ Truthy(h.body.message) ->
                                out.kind = "rejected" /\ out.error.message = h.body.message
                         [] h.kind = "json" /\ ~h.ok /\ ~Truthy(h.body.message) ->
                                out.kind = "rejected" /\ out.error.message \in GenericMessages(h)
                         [] h.kind = "badjson" ->
                                out.kind = "rejected" /\ out.error.message \in GenericMessages(h)
                         [] OTHER -> out.kind = "rejected"
      ]_vars

C18_Witness ==
    /\ Settled("robotApi")
    /\ last.http.kind = "json" /\ ~last.http.ok
    /\ last.http.body.message = "port busy"
    /\ last.outcome.kind = "rejected"
    /\ last.outcome.error.message = "port busy"
    /\ Len(pending) = 1

\* C19: when startTeleoperation is called without an fps argument, the
\* teleoperate/start request carries fps 30.
C19_DefaultFps ==
    (last.op = "startTeleoperation" /\ last.phase = "call"
        /\ last.req = startTeleoperation_request(Undefined)) =>
            last.req.body.fps = "30"

\* C20: as stopTeleoperation settles, status.mode is null when the answer was
\* 'success', and is what it was before when the answer was another status
\* or a failure.
C20_ModeAfterStop ==
    [][ Settled("stopTeleoperation")' =>
            IF SettledSuccess("stopTeleoperation")'
            THEN status'.mode = Null
            ELSE status'.mode = status.mode
      ]_vars

C20_Witness ==
    /\ SettledOk("stopTeleoperation")
    /\ last.result.data.status = "error"
    /\ status.mode = "teleoperating"
    /\ status.connected = TRUE

\* C21: under any interleaving of connectRobot and disconnectRobot calls and
\* their answers, at most one socket is open, and an open socket is the one
\* the store's socket field refers to.
C21_SocketSingleton ==
    /\ Cardinality(sockets) <= 1
    /\ \A s \in sockets : s = socket
    /\ (socket # NoSocket => socket \in sockets)

C21_Witness ==
    /\ SettledSuccess("connectRobot")
    /\ InFlight("connectRobot") # {}
    /\ sockets = {socket}
    /\ status.connected = TRUE

\* the latest step is the part of a call of action op up to its await
Called(op) == last.op = op /\ last.phase = "call"

\* the stop_camera_stream signals for a camera list, in order, on socket s
StopSignals(cams, s) ==
    [i \in 1..Len(cams) |-> Signal("stop_camera_stream", cams[i], Null, s)]

\* C22 as stated: as disconnectRobot issues its request, one
\* stop_camera_stream signal has been emitted for every camera of
\* status.cameras.
C22_StopSignalForEveryCamera ==
    Called("disconnectRobot") =>
        /\ Len(emitted) = Len(status.cameras)
        /\ \A i \in 1..Len(status.cameras) :
              /\ emitted[i].event = "stop_camera_stream"
              /\ emitted[i].camera_id = status.cameras[i].id

\* C22 amended: the step of disconnectRobot that issues the request emits,
\* when the socket is open, one stop_camera_stream signal on it for every
\* camera of status.cameras and, when it is not, none, and closes nothing;
\* the socket is closed only by the step in which disconnectRobot's request
\* has returned 'success'; every signal is emitted on a socket that is open.
C22_StopSignalsOnOpenSocket ==
    [][ /\ Called("disconnectRobot")' =>
                /\ emitted' = IF socket # NoSocket
                               THEN StopSignals(status.cameras, socket) ELSE << >>
                /\ socket' = socket /\ sockets' = sockets
                /\ pending'[Len(pending')].endpoint = "/disconnect"
        /\ (socket # NoSocket /\ socket' = NoSocket) => SettledSuccess("disconnectRobot")'
        /\ \A i \in 1..Len(emitted') : emitted'[i].socket \in sockets
      ]_vars

C22_Witness ==
    /\ Called("disconnectRobot")
    /\ socket # NoSocket /\ socket \in sockets
    /\ status.cameras = <<Cam1, Cam2>>
    /\ emitted = StopSignals(<<Cam1, Cam2>>, socket)

\* C23: the connect request of connectRobot(robotConfig, robotOverrides)
\* carries the robot configuration and, when overrides are given, the
\* override list.
C23_OverridesForwarded ==
    (Called("connectRobot") /\ last.args[2] # Null) =>
        /\ last.args[1] \in {last.req.body[f] : f \in DOMAIN last.req.body}
        /\ last.args[2] \in {last.req.body[f] : f \in DOMAIN last.req.body}

\* C24: as sendAction is called, a POST /actions request goes out through
\* the adapter, and status.error is not written while it has not failed.
C24_ActionPosted ==
    last.op = "sendAction" =>
        /\ \E i \in 1..Len(pending) : pending[i].endpoint = "/actions"
        /\ status.error = Null

\* C25 as stated: in the state a successful disconnectRobot leaves, the only
\* step that makes status.connected true is a connectRobot call receiving a
\* success response.
C25_OnlyConnectReconnects ==
    [][ (SettledSuccess("disconnectRobot") /\ status'.connected = TRUE) =>
            SettledSuccess("connectRobot")'
      ]_vars

\* C25 amended: a successful disconnectRobot leaves status.connected false,
\* and the only steps that make it true are a connectRobot call receiving a
\* success response and a fetchStatus call receiving a status that reports
\* connected; a tick, a teleoperation action or a failed call does not.
C25_ConnectOrStatusReconnects ==
    [][ /\ SettledSuccess("disconnectRobot")' => status'.connected = FALSE
        /\ (status.connected = FALSE /\ status'.connected = TRUE) =>
                \/ SettledSuccess("connectRobot")'
                \/ SettledOk("fetchStatus")' /\ last'.http.body.connected = TRUE
      ]_vars

C25_Witness ==
    /\ SettledSuccess("disconnectRobot")
    /\ status.connected = FALSE
    /\ socket = NoSocket
    /\ pending = <<[op |-> "fetchStatus", endpoint |-> "/status"]>>

\* the actions that set and clear the loading flag
LoadingActions ==
    {"fetchConfigs", "connectRobot", "disconnectRobot", "startTeleoperation", "stopTeleoperation"}

\* C26: isLoading is true in every state in which one of the five actions
\* has a transport call outstanding.
C26_LoadingWhileOutstanding ==
    (\E i \in 1..Len(pending) : pending[i].op \in LoadingActions) => isLoading = TRUE

\* C27: the steps of a disconnectRobot call whose request fails or returns a
\* non-success status (the step that emits the stop signals and issues the
\* request, and the step that takes the answer) leave status.connected,
\* status.mode, the socket, the polling timer and cameraStreams as they were;
\* of the store's fields only status.error and isLoading change.
C27_FailedDisconnectFrame ==
    [][ (Called("disconnectRobot")'
         \/ (Settled("disconnectRobot")' /\ ~SettledSuccess("disconnectRobot")')) =>
            /\ status'.connected = status.connected
            /\ status'.mode = status.mode
            /\ socket' = socket /\ sockets' = sockets
            /\ statusPollingTimer' = statusPollingTimer /\ timers' = timers
            /\ cameraStreams' = cameraStreams
            /\ [status' EXCEPT !.error = Null] = [status EXCEPT !.error = Null]
            /\ configs' = configs
      ]_vars

C27_Witness ==
    /\ Settled("disconnectRobot")
    /\ ~SettledSuccess("disconnectRobot")
    /\ status.connected = TRUE
    /\ status.mode = "teleoperating"
    /\ socket # NoSocket
    /\ statusPollingTimer # NoTimer
    /\ cameraStreams # EmptyStreams

\* C28: a connectRobot call that receives a success response leaves
\* status.error, status.mode, the configuration catalog and cameraStreams as
\* they were: an error recorded before is still reported after it.
C28_ConnectSuccessFrame ==
    [][ SettledSuccess("connectRobot")' =>
            /\ status'.error = status.error
            /\ status'.mode = status.mode
            /\ configs' = configs
            /\ cameraStreams' = cameraStreams
            /\ hasError(World') = hasError(World)
      ]_vars

C28_Witness ==
    /\ SettledSuccess("connectRobot")
    /\ hasError(World)
    /\ errorMessage(World) = "port busy"
    /\ status.mode = "teleoperating"
    /\ configs # << >>
    /\ cameraStreams # EmptyStreams

C30_TimerIffSocket ==
    (statusPollingTimer # NoTimer) <=> (socket # NoSocket)

C30_Witness ==
    /\ SettledSuccess("connectRobot")
    /\ InFlight("disconnectRobot") # {}
    /\ statusPollingTimer # NoTimer
    /\ socket # NoSocket

\* C31: with the socket opened and closed by connectRobot and disconnectRobot
\* alone and frames arriving on it, cameraStreams is empty whenever socket is
\* null: a frame is stored only while a socket is open, and the step that
\* closes the socket clears the mapping.
C31_NoFramesWithoutSocket ==
    socket = NoSocket => cameraStreams = EmptyStreams

\* a successful disconnect has closed the socket while a connect is still in
\* flight, after frames had come in for the cameras the robot reported
C31_Witness ==
    /\ SettledSuccess("disconnectRobot")
    /\ InFlight("connectRobot") # {}
    /\ availableCameras(World) # << >>
    /\ socket = NoSocket
    /\ sockets = {}
    /\ cameraStreams = EmptyStreams

\* the latest step is the arrival of a camera_frame event
FrameArrived == last.op = "camera_frame" /\ last.phase = "event"

\* C32: a camera_frame event for camera id c changes only the entry
\* cameraStreams[c]: the entries of all other cameras, status, configs, the
\* timer and the socket (and the loading flag, the live timers and the open
\* sockets) are as before; an event whose camera_id or frame is missing or
\* empty changes nothing, cameraStreams included.
C32_FrameTouchesOneEntry ==
    [][ FrameArrived' =>
            LET data == last'.data
                stored == Truthy(data.camera_id) /\ Truthy(data.frame)
            IN  /\ status' = status
                /\ configs' = configs
                /\ isLoading' = isLoading
                /\ statusPollingTimer' = statusPollingTimer
                /\ socket' = socket
                /\ timers' = timers
                /\ sockets' = sockets
                /\ listeners' = listeners
                /\ pending' = pending
                /\ stored =>
                      /\ DOMAIN cameraStreams' = DOMAIN cameraStreams \cup {data.camera_id}
                      /\ \A c \in DOMAIN cameraStreams \ {data.camera_id} :
                            cameraStreams'[c] = cameraStreams[c]
                /\ ~stored => cameraStreams' = cameraStreams
      ]_vars

\* a frame for cam2 has arrived, after an event with an empty frame, on a
\* store that is teleoperating with a loaded catalog and a call in flight,
\* and the frame stored for cam1 is still there
C32_Witness ==
    /\ FrameArrived
    /\ last.data = [camera_id |-> "cam2", frame |-> "f2"]
    /\ last.prev = <<[camera_id |-> "cam1", frame |-> ""]>>
    /\ DOMAIN cameraStreams = {"cam1", "cam2"}
    /\ cameraStreams["cam1"] = DataUrl("f1")
    /\ cameraStreams["cam2"] = DataUrl("f2")
    /\ status.mode = "teleoperating"
    /\ configs # << >>
    /\ isLoading
    /\ pending # << >>
    /\ statusPollingTimer # NoTimer
    /\ socket # NoSocket

====
